---- MODULE Spec2Model ----
(***************************************************************************)
(* Heads-up no-limit Hold'em engine of the mako-poker solver:              *)
(* cards, deck, hand evaluator, betting state machine (GameState), the     *)
(* action abstraction, the information sets of CFR+ and the solver's       *)
(* running game value, modelled from solver/src.                           *)
(***************************************************************************)
EXTENDS Integers, Sequences, FiniteSets, TLC

(***************************************************************************)
(* Bounds of the model                                                     *)
(***************************************************************************)
\* number of cards of CardList that make up the deck universe
DeckSize == 9
\* largest starting stack handed to new_hand
MaxStack == 5
\* longest action history explored when the offered actions are played
MaxHist == 5
\* largest amount carried by a Bet / Raise / AllIn a caller submits unasked
MaxAmount == 2
\* most calls made by a caller that submits arbitrary actions
MaxCalls == 2
\* largest short stack of a hand that is played through the abstraction
MaxDeepStack == 7
\* largest amount of an observed Bet / Raise / AllIn handed to the abstraction
MaxObserved == 5
\* longest action history of a hand that is played through the abstraction
MaxAbstractHist == 4
\* most actions of an information set
MaxActions == 2
\* most calls that change an information set
MaxVisits == 2
\* most calls of train on a solver
MaxTrains == 2
\* most iterations asked of one call of train
MaxIterations == 2
\* most actions of a hand that is played again
MaxReplayHist == 3
\* most actions of a sequence that is followed down the tree
MaxSequence == 12
\* largest short starting stack of a solver that traverses the tree
MaxStartingStack == 4
\* largest max_size of a reservoir buffer
MaxSize == 2
\* most samples offered to a reservoir buffer between two clears
MaxOffers == 4
\* size of the deck hands are drawn from for the evaluator alone
EvaluatedDeckSize == 7

(***************************************************************************)
(* Cards (game/card.py, enums/card_enums.py)                               *)
(***************************************************************************)
Card(r, s) == [rank |-> r, suit |-> s]

\* The cards the bounded deck is drawn from, hole cards first.
CardList ==
  << Card(14, "s"), Card(13, "h"), Card(14, "h"), Card(13, "s"),
     Card(12, "c"), Card(9, "d"), Card(8, "d"), Card(7, "d"),
     Card(2, "c"), Card(10, "d"), Card(6, "d"), Card(3, "c") >>

Universe == { CardList[i] : i \in 1..DeckSize }

None == 0

(***************************************************************************)
(* Sequence helpers standing for Python's sorted / reversed / min / max    *)
(***************************************************************************)
Insert(x, s) ==
  LET k == Cardinality({ i \in 1..Len(s) : s[i] <= x })
  IN  SubSeq(s, 1, k) \o <<x>> \o SubSeq(s, k + 1, Len(s))

RECURSIVE sorted(_)
sorted(s) == IF s = <<>> THEN <<>> ELSE Insert(Head(s), sorted(Tail(s)))

reversed(s) == [ i \in 1..Len(s) |-> s[Len(s) + 1 - i] ]

sorted_desc(s) == reversed(sorted(s))

Range(s) == { s[i] : i \in 1..Len(s) }

\* the elements of a set of integers in ascending order
SetToSortedSeq(S) ==
  [ i \in 1..Cardinality(S) |->
      CHOOSE v \in S : Cardinality({ w \in S : w < v }) = i - 1 ]

Min2(a, b) == IF a <= b THEN a ELSE b
Max2(a, b) == IF a >= b THEN a ELSE b
SetMin(S) == CHOOSE x \in S : \A y \in S : x <= y
SetMax(S) == CHOOSE x \in S : \A y \in S : x >= y

\* Python int() of the quotient n / d, d > 0: truncation toward zero
Trunc(n, d) == IF n >= 0 THEN n \div d ELSE -((-n) \div d)

(***************************************************************************)
(* Hand rankings (game/hand_rankings.py)                                   *)
(***************************************************************************)
HandTypes ==
  << "HIGH_CARD", "ONE_PAIR", "TWO_PAIR", "THREE_OF_A_KIND", "STRAIGHT",
     "FLUSH", "FULL_HOUSE", "FOUR_OF_A_KIND", "STRAIGHT_FLUSH" >>

min_rank ==
  [ t \in Range(HandTypes) |->
      CASE t = "HIGH_CARD" -> 1
        [] t = "ONE_PAIR" -> 1278
        [] t = "TWO_PAIR" -> 4138
        [] t = "THREE_OF_A_KIND" -> 4996
        [] t = "STRAIGHT" -> 5854
        [] t = "FLUSH" -> 5864
        [] t = "FULL_HOUSE" -> 7141
        [] t = "FOUR_OF_A_KIND" -> 7297
        [] t = "STRAIGHT_FLUSH" -> 7453 ]

max_rank ==
  [ t \in Range(HandTypes) |->
      CASE t = "HIGH_CARD" -> 1277
        [] t = "ONE_PAIR" -> 4137
        [] t = "TWO_PAIR" -> 4995
        [] t = "THREE_OF_A_KIND" -> 5853
        [] t = "STRAIGHT" -> 5863
        [] t = "FLUSH" -> 7140
        [] t = "FULL_HOUSE" -> 7296
        [] t = "FOUR_OF_A_KIND" -> 7452
        [] t = "STRAIGHT_FLUSH" -> 7462 ]

HAND_TYPE_BASE_RANKS == [ t \in Range(HandTypes) |-> min_rank[t] - 1 ]

\* HandType.from_rank(rank): the first type, in the order of definition,
\* whose range holds the rank; "raised" where the code raises ValueError
from_rank(rank) ==
  IF ~(1 <= rank /\ rank <= 7462) THEN [raised |-> TRUE]
  ELSE LET holds == { i \in 1..Len(HandTypes) :
                        min_rank[HandTypes[i]] <= rank /\ rank <= max_rank[HandTypes[i]] }
       IN  IF holds = {} THEN [raised |-> TRUE]
           ELSE [raised |-> FALSE, value |-> HandTypes[SetMin(holds)]]

(***************************************************************************)
(* Hand evaluator (game/hand_evaluator.py)                                 *)
(***************************************************************************)
\* base-15 positional encoding of a list of card values
RECURSIVE _encode_card_values(_)
_encode_card_values(values) ==
  IF values = <<>> THEN 0
  ELSE Head(values) * (15 ^ (Len(values) - 1)) + _encode_card_values(Tail(values))

\* target_min + int(proportion * range_size); the caller's ranges never
\* have max_possible <= min_possible
_normalize_to_range(encoded, min_possible, max_possible, target_min, target_max) ==
  IF max_possible = min_possible THEN target_min
  ELSE target_min
         + Trunc((encoded - min_possible) * (target_max - target_min),
                 max_possible - min_possible)

_check_straight(values) ==
  LET sv == sorted(values)
  IN  \/ (sv[Len(sv)] - sv[1] = 4 /\ Cardinality(Range(sv)) = 5)
      \/ sv = <<2, 3, 4, 5, 14>>

value_count(values, v) == Cardinality({ i \in 1..Len(values) : values[i] = v })

\* first value, in insertion (ascending) order, that occurs count times
_find_count(values, count) ==
  LET hits == { v \in Range(values) : value_count(values, v) = count }
  IN  IF hits = {} THEN None ELSE SetMin(hits)

_calculate_high_card_rank(values) ==
  _normalize_to_range(_encode_card_values(sorted_desc(values)),
                      _encode_card_values(<<7, 5, 4, 3, 2>>),
                      _encode_card_values(<<14, 13, 12, 11, 9>>), 1, 1277)

_calculate_one_pair_rank(pair_value, kickers) ==
  _normalize_to_range(
      _encode_card_values(<<pair_value>> \o sorted_desc(SubSeq(kickers, 1, Min2(3, Len(kickers))))),
      _encode_card_values(<<2, 5, 4, 3>>),
      _encode_card_values(<<14, 13, 12, 11>>), 1, 2860)

_calculate_two_pair_rank(high_pair, low_pair, kicker) ==
  _normalize_to_range(_encode_card_values(<<high_pair, low_pair, kicker>>),
                      _encode_card_values(<<3, 2, 4>>),
                      _encode_card_values(<<14, 13, 12>>), 1, 858)

_calculate_three_of_kind_rank(trips_value, kickers) ==
  _normalize_to_range(
      _encode_card_values(<<trips_value>> \o sorted_desc(SubSeq(kickers, 1, Min2(2, Len(kickers))))),
      _encode_card_values(<<2, 5, 4>>),
      _encode_card_values(<<14, 13, 12>>), 1, 858)

_calculate_straight_rank(high_card) == IF high_card = 5 THEN 1 ELSE high_card - 4

_calculate_flush_rank(values) ==
  _normalize_to_range(_encode_card_values(sorted_desc(values)),
                      _encode_card_values(<<7, 5, 4, 3, 2>>),
                      _encode_card_values(<<14, 13, 12, 11, 9>>), 1, 1277)

_calculate_full_house_rank(trips, pair) ==
  _normalize_to_range(_encode_card_values(<<trips, pair>>),
                      _encode_card_values(<<2, 3>>),
                      _encode_card_values(<<14, 13>>), 1, 156)

_calculate_four_of_kind_rank(quads, kicker) ==
  _normalize_to_range(_encode_card_values(<<quads, kicker>>),
                      _encode_card_values(<<2, 3>>),
                      _encode_card_values(<<14, 13>>), 1, 156)

_calculate_straight_flush_rank(high_card) == IF high_card = 5 THEN 1 ELSE high_card - 4

HandResult(rank, type) == [absolute_rank |-> rank, hand_type |-> type]

\* cards: a sequence of exactly five cards
_evaluate_five_cards(cards) ==
  LET values == sorted([ i \in 1..Len(cards) |-> cards[i].rank ])
      is_flush == Cardinality({ cards[i].suit : i \in 1..Len(cards) }) = 1
      is_straight == _check_straight(values)
      is_wheel == values = <<2, 3, 4, 5, 14>>
      four_of_kind == _find_count(values, 4)
      three_of_kind == _find_count(values, 3)
      pair == _find_count(values, 2)
      pairs == reversed(SetToSortedSeq({ v \in Range(values) : value_count(values, v) = 2 }))
      high_card == IF is_wheel THEN 5 ELSE values[Len(values)]
  IN  IF is_flush /\ is_straight
        THEN HandResult(HAND_TYPE_BASE_RANKS["STRAIGHT_FLUSH"]
                          + _calculate_straight_flush_rank(high_card),
                        "STRAIGHT_FLUSH")
      ELSE IF four_of_kind # None
        THEN HandResult(HAND_TYPE_BASE_RANKS["FOUR_OF_A_KIND"]
                          + _calculate_four_of_kind_rank(
                              four_of_kind,
                              Head(SelectSeq(values, LAMBDA v : v # four_of_kind))),
                        "FOUR_OF_A_KIND")
      ELSE IF three_of_kind # None /\ pair # None
        THEN HandResult(HAND_TYPE_BASE_RANKS["FULL_HOUSE"]
                          + _calculate_full_house_rank(three_of_kind, pair),
                        "FULL_HOUSE")
      ELSE IF is_flush
        THEN HandResult(HAND_TYPE_BASE_RANKS["FLUSH"] + _calculate_flush_rank(values),
                        "FLUSH")
      ELSE IF is_straight
        THEN HandResult(HAND_TYPE_BASE_RANKS["STRAIGHT"]
                          + _calculate_straight_rank(high_card),
                        "STRAIGHT")
      ELSE IF three_of_kind # None
        THEN HandResult(HAND_TYPE_BASE_RANKS["THREE_OF_A_KIND"]
                          + _calculate_three_of_kind_rank(
                              three_of_kind,
                              sorted_desc(SelectSeq(values, LAMBDA v : v # three_of_kind))),
                        "THREE_OF_A_KIND")
      ELSE IF Len(pairs) = 2
        THEN HandResult(HAND_TYPE_BASE_RANKS["TWO_PAIR"]
                          + _calculate_two_pair_rank(
                              pairs[1], pairs[2],
                              Head(SelectSeq(values, LAMBDA v : v \notin Range(pairs)))),
                        "TWO_PAIR")
      ELSE IF Len(pairs) = 1
        THEN HandResult(HAND_TYPE_BASE_RANKS["ONE_PAIR"]
                          + _calculate_one_pair_rank(
                              pairs[1],
                              sorted_desc(SelectSeq(values, LAMBDA v : v # pairs[1]))),
                        "ONE_PAIR")
      ELSE HandResult(_calculate_high_card_rank(values), "HIGH_CARD")

\* index sets of itertools.combinations(all_cards, 5); I comes before J in
\* its lexicographic order iff the least index on which they differ is in I
Combinations5(n) == { I \in SUBSET (1..n) : Cardinality(I) = 5 }

ComboBefore(I, J) ==
  I # J /\ SetMin((I \ J) \cup (J \ I)) \in I

ComboCards(all_cards, I) ==
  LET idx == SetToSortedSeq(I)
  IN  [ k \in 1..5 |-> all_cards[idx[k]] ]

\* the cards of a list at the indices of I, in the order of the list
Picked(all_cards, I) ==
  LET idx == SetToSortedSeq(I)
  IN  [ k \in 1..Cardinality(I) |-> all_cards[idx[k]] ]

\* "ok" is FALSE where the code raises ValueError('Must have 5-7 cards')
evaluate(hole_cards, community_cards) ==
  LET all_cards == hole_cards \o community_cards
      n == Len(all_cards)
  IN  IF ~(5 <= n /\ n <= 7)
        THEN [ok |-> FALSE, result |-> HandResult(0, "HIGH_CARD")]
      ELSE
        LET results == { << I, _evaluate_five_cards(ComboCards(all_cards, I)) >> :
                           I \in Combinations5(n) }
            best_rank == SetMax({ r[2].absolute_rank : r \in results })
            best == CHOOSE r \in results :
                      /\ r[2].absolute_rank = best_rank
                      /\ \A q \in results :
                           q[2].absolute_rank = best_rank /\ q[1] # r[1]
                             => ComboBefore(r[1], q[1])
        IN  [ok |-> TRUE, result |-> best[2]]

(***************************************************************************)
(* Deck (game/deck.py)                                                     *)
(***************************************************************************)
\* Deck(exclude): the cards of the universe not in the excluded list
Deck(exclude) == { c \in Universe : c \notin Range(exclude) }

\* Deck.shuffle() followed by deal(n): any arrangement of n distinct cards of
\* the deck can come off the top; the empty set where deal raises ValueError
RECURSIVE Arrangements(_, _)
Arrangements(cards, n) ==
  IF n = 0 THEN { <<>> }
  ELSE UNION { { <<c>> \o rest : rest \in Arrangements(cards \ {c}, n - 1) } : c \in cards }

deal(cards, n) == IF n > Cardinality(cards) THEN {} ELSE Arrangements(cards, n)

(***************************************************************************)
(* Actions (game/action.py)                                                *)
(***************************************************************************)
Action(type, amount) == [type |-> type, amount |-> amount]
fold == Action("fold", 0)
check == Action("check", 0)
call == Action("call", 0)
bet(amount) == Action("bet", amount)
raise_to(amount) == Action("raise", amount)
all_in(amount) == Action("all_in", amount)

\* tokens that leave the amount of a bet and of a raise out
encode_AmountDropped(self) ==
  CASE self.type = "fold" -> "f"
    [] self.type = "check" -> "x"
    [] self.type = "call" -> "c"
    [] self.type = "bet" -> "b"
    [] self.type = "raise" -> "r"
    [] self.type = "all_in" -> "a"
    [] OTHER -> "?"

\* Action.encode: the token of an action in a history string
encode(self) ==
  CASE self.type = "fold" -> "f"
    [] self.type = "check" -> "x"
    [] self.type = "call" -> "c"
    [] self.type = "bet" -> "b" \o ToString(self.amount)
    [] self.type = "raise" -> "r" \o ToString(self.amount)
    [] self.type = "all_in" -> "a"
    [] OTHER -> "?"

\* sep.join(strings)
RECURSIVE join(_, _)
join(sep, strings) ==
  IF strings = <<>> THEN ""
  ELSE IF Len(strings) = 1 THEN strings[1]
  ELSE strings[1] \o sep \o join(sep, Tail(strings))

(***************************************************************************)
(* Game state (game/game_state.py)                                         *)
(***************************************************************************)
Players == {0, 1}
Streets == << "PREFLOP", "FLOP", "TURN", "RIVER" >>
StreetValue(street) == CHOOSE i \in 0..3 : Streets[i + 1] = street

\* Street.next(): None after the river
NoStreet == "None"
next(street) == IF street = "RIVER" THEN NoStreet ELSE Streets[StreetValue(street) + 2]

new_hand(hole_cards, stacks, big_blind) ==
  LET small_blind == big_blind \div 2
  IN  [ hole_cards |-> hole_cards,
        community_cards |-> <<>>,
        pot |-> small_blind + big_blind,
        stacks |-> [ p \in Players |-> IF p = 0 THEN stacks[0] - small_blind
                                                 ELSE stacks[1] - big_blind ],
        current_player |-> 0,
        street |-> "PREFLOP",
        action_history |-> <<>>,
        bets_this_round |-> [ p \in Players |-> IF p = 0 THEN small_blind ELSE big_blind ],
        is_terminal |-> FALSE,
        winner |-> -1,
        big_blind |-> big_blind,
        facing_bet |-> TRUE ]

_get_min_raise(self) == self.big_blind

\* appending to a list only when the condition holds
When(cond, a) == IF cond THEN <<a>> ELSE <<>>

get_legal_actions(self) ==
  IF self.is_terminal THEN <<>>
  ELSE
    LET player == self.current_player
        my_stack == self.stacks[player]
        my_bet == self.bets_this_round[player]
        opp_bet == self.bets_this_round[1 - player]
        to_call == opp_bet - my_bet
        call_amount == Min2(to_call, my_stack)
        min_raise == _get_min_raise(self)
        raise_total == opp_bet + min_raise
    IN  When(to_call > 0, fold)
        \o When(to_call = 0, check)
        \o When(to_call > 0 /\ my_stack > 0,
                IF call_amount < my_stack THEN call ELSE all_in(call_amount))
        \o (IF my_stack > to_call
              THEN IF to_call = 0
                     THEN When(my_stack >= min_raise, bet(min_raise))
                          \o When(my_stack > min_raise, all_in(my_stack))
                     ELSE When(my_stack >= raise_total - my_bet, raise_to(raise_total))
                          \o When(my_stack > to_call, all_in(my_stack))
              ELSE <<>>)

_is_round_complete_after_check(self) ==
  IF self.street = "PREFLOP"
    THEN self.current_player = 1 /\ ~self.facing_bet
    ELSE self.current_player = 1

\* What a call leaves behind: either it raised (no state is returned) or it
\* returned new_state.
Raised == [raised |-> TRUE]
Returned(new_state) == [raised |-> FALSE, new_state |-> new_state]

\* the hole cards dealt: two cards each off the top of the card list
TopDeal == << CardList[1], CardList[2], CardList[3], CardList[4] >>

Deals ==
  { TopDeal,
    << CardList[1], CardList[3], CardList[2], CardList[4] >>,
    << CardList[2], CardList[4], CardList[1], CardList[3] >> }

HoleCards(d) == [ p \in Players |-> IF p = 0 THEN << d[1], d[2] >> ELSE << d[3], d[4] >> ]


\* evaluate, tabulated once for the hands and boards of the bounded deck
EvaluateTable ==
  [ k \in UNION { { << HoleCards(d)[p], board >> :
                      p \in Players,
                      board \in deal(Deck(HoleCards(d)[0] \o HoleCards(d)[1]), 5) } :
                  d \in Deals }
      |-> evaluate(k[1], k[2]) ] @@ << >>

Evaluated(hole_cards, community_cards) ==
  IF << hole_cards, community_cards >> \in DOMAIN EvaluateTable
    THEN EvaluateTable[<< hole_cards, community_cards >>]
    ELSE evaluate(hole_cards, community_cards)

\* a showdown between equal hands that names no winner
compare_hands_TieUndecided(self, hand0, hand1) ==
  IF ~hand0.ok \/ ~hand1.ok THEN Raised
  ELSE Returned([ self EXCEPT
         !.is_terminal = TRUE,
         !.winner = IF hand0.result.absolute_rank > hand1.result.absolute_rank THEN 0
                    ELSE IF hand1.result.absolute_rank > hand0.result.absolute_rank THEN 1
                    ELSE -1 ])

\* the comparison of the two evaluated hands that ends _showdown
compare_hands(self, hand0, hand1) ==
  IF ~hand0.ok \/ ~hand1.ok THEN Raised
  ELSE Returned([ self EXCEPT
         !.is_terminal = TRUE,
         !.winner = IF hand0.result.absolute_rank > hand1.result.absolute_rank THEN 0
                    ELSE IF hand1.result.absolute_rank > hand0.result.absolute_rank THEN 1
                    ELSE 2 ])

_showdown(self) ==
  compare_hands(self,
                Evaluated(self.hole_cards[0], self.community_cards),
                Evaluated(self.hole_cards[1], self.community_cards))

\* a run-out that stops one card short of a full board
_run_out_board_OneShort(self) ==
  LET cards_needed == 4 - Len(self.community_cards)
      excluded == self.hole_cards[0] \o self.hole_cards[1] \o self.community_cards
      dealt == deal(Deck(excluded), cards_needed)
  IN  IF cards_needed > 0
        THEN IF dealt = {} THEN { Raised }
             ELSE { _showdown([ self EXCEPT !.community_cards = @ \o d ]) : d \in dealt }
        ELSE { _showdown(self) }

\* the set of outcomes, one per order the shuffled deck can come in
_run_out_board(self) ==
  LET cards_needed == 5 - Len(self.community_cards)
      excluded == self.hole_cards[0] \o self.hole_cards[1] \o self.community_cards
      dealt == deal(Deck(excluded), cards_needed)
  IN  IF cards_needed > 0
        THEN IF dealt = {} THEN { Raised }
             ELSE { _showdown([ self EXCEPT !.community_cards = @ \o d ]) : d \in dealt }
        ELSE { _showdown(self) }

\* the street advances with the facing_bet flag left as it was
_advance_street_FacingKept(self) ==
  LET reset == [ self EXCEPT !.bets_this_round = [ p \in Players |-> 0 ],
                             !.current_player = 1 ]
  IN  IF reset.stacks[0] = 0 \/ reset.stacks[1] = 0 THEN _run_out_board(reset)
      ELSE IF next(reset.street) = NoStreet THEN { _showdown(reset) }
      ELSE { Returned([ reset EXCEPT !.street = next(reset.street) ]) }

_advance_street(self) ==
  LET reset == [ self EXCEPT !.bets_this_round = [ p \in Players |-> 0 ],
                             !.facing_bet = FALSE,
                             !.current_player = 1 ]
  IN  IF reset.stacks[0] = 0 \/ reset.stacks[1] = 0 THEN _run_out_board(reset)
      ELSE IF next(reset.street) = NoStreet THEN { _showdown(reset) }
      ELSE { Returned([ reset EXCEPT !.street = next(reset.street) ]) }

\* copy.copy(self) in the place of copy.deepcopy(self): the new object holds
\* the very lists of self
deepcopy_Shallow(self) ==
  [state |-> self,
   shares |-> {"hole_cards", "community_cards", "stacks", "action_history",
               "bets_this_round"}]

\* copy.deepcopy(self): a new object whose lists are new objects too; "shares"
\* names the list attributes that are the same object in both states
deepcopy(self) == [state |-> self, shares |-> {}]

\* the chips reach the pot and the bets of the round but are not taken off
\* the stack
Commit_StackKept(new_state, player, amount) ==
  [ new_state EXCEPT !.pot = @ + amount,
                     !.bets_this_round[player] = @ + amount ]

\* the three in-place updates that move chips of the player into the pot
Commit(new_state, player, amount) ==
  [ new_state EXCEPT !.stacks[player] = @ - amount,
                     !.pot = @ + amount,
                     !.bets_this_round[player] = @ + amount ]

\* list attributes that apply_action updates in place, through the copy
\* (new_state.stacks[player] -= ..., new_state.bets_this_round[player] += ...);
\* action_history, bets_this_round on a new street and community_cards on a
\* run-out are bound to new lists instead
InPlaceLists == {"stacks", "bets_this_round"}

\* self as the caller sees it once apply_action is over: a list shared with
\* new_state carries the item assignments made through new_state
SelfAfter(self, copied, committed) ==
  [ f \in DOMAIN self |->
      IF f \in copied.shares \cap InPlaceLists THEN committed[f] ELSE self[f] ]

\* apply_action up to the point where the chips are committed
Committed(self, copied, action) ==
  LET new_state == [ copied.state EXCEPT !.action_history = self.action_history \o <<action>> ]
      player == self.current_player
      my_bet == self.bets_this_round[player]
      opp_bet == self.bets_this_round[1 - player]
      to_call == opp_bet - my_bet
  IN  CASE action.type = "call" ->
             Commit(new_state, player, Min2(to_call, self.stacks[player]))
        [] action.type = "bet" -> Commit(new_state, player, action.amount)
        [] action.type = "raise" -> Commit(new_state, player, action.amount - my_bet)
        [] action.type = "all_in" -> Commit(new_state, player, action.amount)
        [] OTHER -> new_state

\* the outcomes of self.apply_action(action), each with the state of self
\* that the call leaves behind
apply_action(self, action) ==
  LET copied == deepcopy(self)
      player == self.current_player
      opponent == 1 - player
      opp_bet == self.bets_this_round[opponent]
      new_state == Committed(self, copied, action)
      \* the branches that end in new_state._advance_street()
      advances ==
        \/ action.type = "check" /\ _is_round_complete_after_check(self)
        \/ action.type = "call"
        \/ action.type = "all_in" /\ ~(new_state.bets_this_round[player] > opp_bet)
  IN  { [ outcome |-> o, self_after |-> SelfAfter(self, copied, new_state) ] :
          o \in
            IF advances THEN _advance_street(new_state)
            ELSE CASE action.type = "fold" ->
                        { Returned([ new_state EXCEPT !.is_terminal = TRUE, !.winner = opponent ]) }
                   [] action.type = "check" ->
                        { Returned([ new_state EXCEPT !.current_player = opponent ]) }
                   [] action.type \in {"bet", "raise", "all_in"} ->
                        { Returned([ new_state EXCEPT !.current_player = opponent,
                                                      !.facing_bet = TRUE ]) } }

\* the action closes the betting round of the state it is applied to
ClosesRound(s, action) ==
  \/ action.type = "call"
  \/ action.type = "check" /\ _is_round_complete_after_check(s)
  \/ /\ action.type = "all_in"
     /\ s.bets_this_round[s.current_player] + action.amount
          <= s.bets_this_round[1 - s.current_player]

\* the round closes with a player all-in: the call runs the board out
RunsOut(s, action) ==
  /\ ClosesRound(s, action)
  /\ \E p \in Players : Committed(s, deepcopy(s), action).stacks[p] = 0

\* GameState.encode_history
encode_history(self) ==
  join("|", [ i \in 1..Len(self.action_history) |-> encode(self.action_history[i]) ])

\* pot // 2 in the place of pot / 2 on the loser's side
get_payoff_FloorDiv(self, player) ==
  IF ~self.is_terminal THEN 0
  ELSE IF self.winner = 2 THEN 0
  ELSE IF self.winner = player THEN self.pot
  ELSE -2 * ((self.pot + 1) \div 2)

\* payoff in half chips (twice the float the code returns, which is pot / 2)
get_payoff(self, player) ==
  IF ~self.is_terminal THEN 0
  ELSE IF self.winner = 2 THEN 0
  ELSE IF self.winner = player THEN self.pot
  ELSE -self.pot

(***************************************************************************)
(* Action abstraction (abstraction/action_abstraction.py)                  *)
(***************************************************************************)
\* the default sizes as fractions <<numerator, denominator>>:
\* PREFLOP_RAISE_SIZES = [2.5, 3.0], POSTFLOP_BET_SIZES = [0.33, 0.67, 1.0]
PREFLOP_RAISE_SIZES == << <<5, 2>>, <<3, 1>> >>
POSTFLOP_BET_SIZES == << <<33, 100>>, <<67, 100>>, <<1, 1>> >>
include_all_in == TRUE

\* an optional argument: left out (None) or given with a value
NotGiven == [given |-> FALSE]
Given(value) == [given |-> TRUE, value |-> value]

\* ActionAbstraction.__init__: the configured sizes, the defaults where none
\* are given
ActionAbstraction(preflop_raise_sizes, postflop_bet_sizes, all_in_included) ==
  [ _preflop_sizes |-> IF preflop_raise_sizes.given THEN preflop_raise_sizes.value
                       ELSE PREFLOP_RAISE_SIZES,
    _postflop_sizes |-> IF postflop_bet_sizes.given THEN postflop_bet_sizes.value
                        ELSE POSTFLOP_BET_SIZES,
    _include_all_in |-> all_in_included ]

\* ActionAbstraction()
DefaultAbstraction == ActionAbstraction(NotGiven, NotGiven, include_all_in)

\* int(size * x) for a size given as a fraction and x >= 0
IntTimes(size, x) == (size[1] * x) \div size[2]

\* keeps the first occurrence of every (type, amount)
_deduplicate_actions(actions) ==
  LET first == { i \in 1..Len(actions) : \A j \in 1..(i - 1) : actions[j] # actions[i] }
      idx == SetToSortedSeq(first)
  IN  [ k \in 1..Len(idx) |-> actions[idx[k]] ]

RECURSIVE Flatten(_)
Flatten(ss) == IF ss = <<>> THEN <<>> ELSE Head(ss) \o Flatten(Tail(ss))

\* every configured size is offered, whether the stack covers it or not
get_abstract_actions_AnySize(self, game_state) ==
  IF game_state.is_terminal THEN <<>>
  ELSE
    LET player == game_state.current_player
        my_stack == game_state.stacks[player]
        my_bet == game_state.bets_this_round[player]
        opp_bet == game_state.bets_this_round[1 - player]
        to_call == opp_bet - my_bet
        pot == game_state.pot
        Sized(bet_size) ==
          IF to_call = 0
            THEN << bet(bet_size) >>
            ELSE << raise_to(opp_bet + bet_size) >>
        sizes ==
          IF game_state.street = "PREFLOP"
            THEN [ i \in 1..Len(self._preflop_sizes) |->
                     IntTimes(self._preflop_sizes[i], game_state.big_blind) ]
            ELSE [ i \in 1..Len(self._postflop_sizes) |->
                     Max2(IntTimes(self._postflop_sizes[i], pot), game_state.big_blind) ]
        passive ==
          When(to_call > 0, fold)
          \o When(to_call = 0, check)
          \o When(to_call > 0 /\ my_stack > 0,
                  IF to_call >= my_stack THEN all_in(my_stack) ELSE call)
        sized ==
          IF my_stack > to_call
            THEN passive \o Flatten([ i \in 1..Len(sizes) |-> Sized(sizes[i]) ])
            ELSE passive
        actions ==
          IF my_stack > to_call /\ self._include_all_in /\ my_stack > to_call
               /\ all_in(my_stack) \notin Range(sized)
            THEN sized \o << all_in(my_stack) >>
            ELSE sized
    IN  _deduplicate_actions(actions)

\* a Call is offered to every player who faces a bet with chips left, also
\* when the call takes the whole stack
get_abstract_actions_CallKept(self, game_state) ==
  IF game_state.is_terminal THEN <<>>
  ELSE
    LET player == game_state.current_player
        my_stack == game_state.stacks[player]
        my_bet == game_state.bets_this_round[player]
        opp_bet == game_state.bets_this_round[1 - player]
        to_call == opp_bet - my_bet
        pot == game_state.pot
        Sized(bet_size) ==
          IF to_call = 0
            THEN When(bet_size <= my_stack, bet(bet_size))
            ELSE When(opp_bet + bet_size - my_bet <= my_stack, raise_to(opp_bet + bet_size))
        sizes ==
          IF game_state.street = "PREFLOP"
            THEN [ i \in 1..Len(self._preflop_sizes) |->
                     IntTimes(self._preflop_sizes[i], game_state.big_blind) ]
            ELSE [ i \in 1..Len(self._postflop_sizes) |->
                     Max2(IntTimes(self._postflop_sizes[i], pot), game_state.big_blind) ]
        passive ==
          When(to_call > 0, fold)
          \o When(to_call = 0, check)
          \o When(to_call > 0 /\ my_stack > 0,
                  call)
        sized ==
          IF my_stack > to_call
            THEN passive \o Flatten([ i \in 1..Len(sizes) |-> Sized(sizes[i]) ])
            ELSE passive
        actions ==
          IF my_stack > to_call /\ self._include_all_in /\ my_stack > to_call
               /\ all_in(my_stack) \notin Range(sized)
            THEN sized \o << all_in(my_stack) >>
            ELSE sized
    IN  _deduplicate_actions(actions)

get_abstract_actions(self, game_state) ==
  IF game_state.is_terminal THEN <<>>
  ELSE
    LET player == game_state.current_player
        my_stack == game_state.stacks[player]
        my_bet == game_state.bets_this_round[player]
        opp_bet == game_state.bets_this_round[1 - player]
        to_call == opp_bet - my_bet
        pot == game_state.pot
        Sized(bet_size) ==
          IF to_call = 0
            THEN When(bet_size <= my_stack, bet(bet_size))
            ELSE When(opp_bet + bet_size - my_bet <= my_stack, raise_to(opp_bet + bet_size))
        sizes ==
          IF game_state.street = "PREFLOP"
            THEN [ i \in 1..Len(self._preflop_sizes) |->
                     IntTimes(self._preflop_sizes[i], game_state.big_blind) ]
            ELSE [ i \in 1..Len(self._postflop_sizes) |->
                     Max2(IntTimes(self._postflop_sizes[i], pot), game_state.big_blind) ]
        passive ==
          When(to_call > 0, fold)
          \o When(to_call = 0, check)
          \o When(to_call > 0 /\ my_stack > 0,
                  IF to_call >= my_stack THEN all_in(my_stack) ELSE call)
        sized ==
          IF my_stack > to_call
            THEN passive \o Flatten([ i \in 1..Len(sizes) |-> Sized(sizes[i]) ])
            ELSE passive
        actions ==
          IF my_stack > to_call /\ self._include_all_in /\ my_stack > to_call
               /\ all_in(my_stack) \notin Range(sized)
            THEN sized \o << all_in(my_stack) >>
            ELSE sized
    IN  _deduplicate_actions(actions)

Abs(x) == IF x < 0 THEN -x ELSE x

\* min(items, key = lambda a: abs(a.amount - amount)): the first item of the
\* list among those with the least key
min_by_distance(items, amount) ==
  LET key(i) == Abs(items[i].amount - amount)
      least == SetMin({ key(i) : i \in 1..Len(items) })
  IN  items[SetMin({ i \in 1..Len(items) : key(i) = least })]

IsAggressive(a) == a.type \in {"bet", "raise", "all_in"}

map_to_abstract(self, action, game_state) ==
  IF action.type \in {"fold", "check", "call"} THEN action
  ELSE IF action.type = "all_in" THEN action
  ELSE LET aggressive_actions ==
             SelectSeq(get_abstract_actions(self, game_state), IsAggressive)
       IN  IF aggressive_actions = << >> THEN action
           ELSE min_by_distance(aggressive_actions, action.amount)

\* list.index(item): the position, counted from 0, of the first element equal
\* to item, or ValueError when there is none
index(items, item) ==
  LET at == { i \in 1..Len(items) : items[i] = item }
  IN  IF at = {} THEN [raised |-> TRUE]
      ELSE [raised |-> FALSE, value |-> SetMin(at) - 1]

encode_action(self, action, game_state) ==
  LET abstract_actions == get_abstract_actions(self, game_state)
  IN  IF ~index(abstract_actions, action).raised
        THEN index(abstract_actions, action)
        ELSE index(abstract_actions, map_to_abstract(self, action, game_state))

get_num_actions(self, game_state) == Len(get_abstract_actions(self, game_state))

(***************************************************************************)
(* Information sets (cfr/information_set.py).  The float64 entries of the  *)
(* arrays are modelled as exact fractions n/d in lowest terms, d > 0.      *)
(***************************************************************************)
RECURSIVE GCD(_, _)
GCD(a, b) == IF b = 0 THEN a ELSE GCD(b, a % b)

Rat(n, d) ==
  LET g == GCD(Abs(n), Abs(d))
      sign == IF d < 0 THEN -1 ELSE 1
  IN  [n |-> sign * (n \div g), d |-> sign * (d \div g)]

Zero == Rat(0, 1)
One == Rat(1, 1)
RAdd(x, y) == Rat(x.n * y.d + y.n * x.d, x.d * y.d)
RSub(x, y) == Rat(x.n * y.d - y.n * x.d, x.d * y.d)
RMul(x, y) == Rat(x.n * y.n, x.d * y.d)
RDiv(x, y) == Rat(x.n * y.d, x.d * y.n)
RGt(x, y) == x.n * y.d > y.n * x.d
RGe(x, y) == x.n * y.d >= y.n * x.d

\* np.zeros(n), np.ones(n)
zeros(n) == [ i \in 1..n |-> Zero ]
ones(n) == [ i \in 1..n |-> One ]

\* np.maximum(0, a)
maximum0(a) == [ i \in 1..Len(a) |-> IF RGt(a[i], Zero) THEN a[i] ELSE Zero ]

\* np.sum(a)
RECURSIVE sum(_)
sum(a) == IF a = << >> THEN Zero ELSE RAdd(Head(a), sum(Tail(a)))

\* np.dot(a, b)
dot(a, b) == sum([ i \in 1..Len(a) |-> RMul(a[i], b[i]) ])

\* InformationSet.__init__
InformationSet(num_actions) ==
  [ num_actions |-> num_actions,
    cumulative_regrets |-> zeros(num_actions),
    strategy_sum |-> zeros(num_actions) ]

\* InformationSetManager.get_or_create on the dict self: the dict after the
\* call and the information set the call returns; num_actions is used only
\* when the key is new
get_or_create(self, key, num_actions) ==
  IF key \in DOMAIN self
    THEN [self |-> self, returned |-> self[key]]
    ELSE [self |-> self @@ (key :> InformationSet(num_actions)),
          returned |-> InformationSet(num_actions)]

\* strategy / total, or the uniform distribution when total is not positive
divided(self, strategy, total) ==
  IF RGt(total, Zero)
    THEN [ i \in 1..Len(strategy) |-> RDiv(strategy[i], total) ]
    ELSE [ i \in 1..self.num_actions |->
             RDiv(ones(self.num_actions)[i], Rat(self.num_actions, 1)) ]

\* the vector is divided by the number of actions, not by its sum
_normalize_ByCount(self, strategy) ==
  divided(self, strategy, IF RGt(sum(strategy), Zero) THEN Rat(self.num_actions, 1) ELSE Zero)

_normalize(self, strategy) == divided(self, strategy, sum(strategy))

\* the end of get_strategy: strategy_sum += reach_probability * strategy in
\* place, and the strategy is returned
accumulated(self, reach_probability, strategy) ==
  [ returned |-> strategy,
    self |-> [ self EXCEPT !.strategy_sum =
                 [ i \in 1..Len(@) |-> RAdd(@[i], RMul(reach_probability, strategy[i])) ] ] ]

\* get_strategy: the strategy returned and the object as the call leaves it
get_strategy(self, reach_probability) ==
  accumulated(self, reach_probability,
              _normalize(self, maximum0(self.cumulative_regrets)))

get_average_strategy(self) == _normalize(self, self.strategy_sum)

\* cumulative_regrets += reach * (action_utilities - expected_utility),
\* without the floor that follows
accumulate(self, action_utilities, expected_utility, reach) ==
  [ self EXCEPT !.cumulative_regrets =
      [ i \in 1..Len(@) |->
          RAdd(@[i], RMul(reach, RSub(action_utilities[i], expected_utility))) ] ]

\* the regrets are accumulated and not floored at 0
floor_regrets_Skipped(self) == self

\* cumulative_regrets = np.maximum(0, cumulative_regrets)
floor_regrets(self) ==
  [ self EXCEPT !.cumulative_regrets = maximum0(@) ]

update_regrets(self, action_utilities, counterfactual_reach) ==
  floor_regrets(
    accumulate(self, action_utilities,
               dot(_normalize(self, maximum0(self.cumulative_regrets)), action_utilities),
               counterfactual_reach))

\* the in-line update of a node: node_utility = dot(strategy,
\* action_utilities), the regrets against it weighted by cf_reach, the floor
update_in_line(got, action_utilities, cf_reach) ==
  floor_regrets(accumulate(got.self, action_utilities,
                           dot(got.returned, action_utilities), cf_reach))

\* the visit of a decision node in KuhnCFRSolver._cfr and, for the
\* traversing player, in CFRPlusSolver._cfr_traverse: the strategy is taken
\* with get_strategy, the action utilities come back from the subtrees, and
\* the regrets are updated in line.  (At a node of the other player
\* _cfr_traverse calls get_strategy and updates nothing.)
visit_node(self, reach_probability, action_utilities, cf_reach) ==
  update_in_line(get_strategy(self, reach_probability), action_utilities, cf_reach)

(***************************************************************************)
(* The solver's running game value (cfr/cfr_plus.py)                       *)
(***************************************************************************)
\* CFRPlusSolver.__init__: the two counters
CFRPlusSolver == [ _iteration |-> 0, _total_utility |-> Zero ]

\* what the traversal of one iteration comes back with: the utility of the
\* root, or the exception of an apply_action on its way
Traversed(utility) == [raised |-> FALSE, utility |-> utility]

\* for i in range(iterations): the rest of the loop from i on
RECURSIVE loop(_, _, _, _)
loop(self, i, iterations, traversals) ==
  IF i = iterations THEN [raised |-> FALSE, self |-> self]
  ELSE IF traversals[i + 1].raised
    THEN [raised |-> TRUE, self |-> [ self EXCEPT !._iteration = i + 1 ]]
    ELSE loop([ self EXCEPT !._iteration = i + 1,
                            !._total_utility = RAdd(@, traversals[i + 1].utility) ],
              i + 1, iterations, traversals)

\* train(iterations): the solver as the call leaves it, and whether the call
\* raised, in the traversal or in the division by iterations that ends it
train(self, iterations, traversals) ==
  IF loop(self, 0, iterations, traversals).raised \/ iterations = 0
    THEN [raised |-> TRUE, self |-> loop(self, 0, iterations, traversals).self]
    ELSE [raised |-> FALSE, self |-> loop(self, 0, iterations, traversals).self,
          returned |-> RDiv(loop(self, 0, iterations, traversals).self._total_utility,
                            Rat(iterations, 1))]

get_game_value(self) ==
  IF self._iteration = 0 THEN Zero
  ELSE RDiv(self._total_utility, Rat(self._iteration, 1))

\* Rank.symbol of the ranks of the hole cards that are dealt
symbol(rank) ==
  CASE rank = 14 -> "A" [] rank = 13 -> "K" [] rank = 12 -> "Q"
    [] rank = 11 -> "J" [] rank = 10 -> "T" [] OTHER -> ToString(rank)

\* the head of the list of starting hands in HandBucketing._build_preflop_table
hand_rankings ==
  << "AA", "KK", "QQ", "AKs", "JJ", "AQs", "KQs", "AJs", "KJs", "TT", "AKo" >>

preflop_buckets == 169

\* HandBucketing._preflop_bucket: the bucket of the canonical form of the
\* two cards, 0 for a hand the table does not hold
_preflop_bucket(cards) ==
  LET c1 == IF cards[1].rank < cards[2].rank THEN cards[2] ELSE cards[1]
      c2 == IF cards[1].rank < cards[2].rank THEN cards[1] ELSE cards[2]
      hand_str == IF c1.rank = c2.rank THEN symbol(c1.rank) \o symbol(c2.rank)
                  ELSE symbol(c1.rank) \o symbol(c2.rank)
                         \o (IF c1.suit = c2.suit THEN "s" ELSE "o")
      found == { idx \in 1..Len(hand_rankings) : hand_rankings[idx] = hand_str }
  IN  IF found = {} THEN 0
      ELSE ((SetMin(found) - 1) * preflop_buckets) \div 169

\* a key of the bucket and the street alone
_build_infoset_key_NoHistory(game_state, player) ==
  ToString(_preflop_bucket(game_state.hole_cards[player]))
    \o ":" \o game_state.street

\* CFRPlusSolver._build_infoset_key: the board of a state is always empty
\* here (no street deals cards), so that get_bucket is the preflop bucket
_build_infoset_key(game_state, player) ==
  ToString(_preflop_bucket(game_state.hole_cards[player]))
    \o ":" \o game_state.street \o ":" \o encode_history(game_state)

\* InformationSetManager.__init__, with a note of the players that were to
\* act at the nodes of each key
InformationSetManager == [_infosets |-> << >>, players |-> << >>]

\* what a traversal comes back with: the manager as it leaves it, and the
\* utility of the node or the exception of an apply_action below it
Came(manager, utility) == [raised |-> FALSE, manager |-> manager, utility |-> utility]
Failed(manager) == [raised |-> TRUE, manager |-> manager]

\* the end of a node, after the loop over its actions: node_utility, and the
\* regrets of the information set updated if the traversing player acts
finish(game_state, reach_probs, traversing_player, infoset_key, strategy, looped) ==
  IF looped.raised THEN Failed(looped.manager)
  ELSE Came(
         IF game_state.current_player = traversing_player
           THEN [ looped.manager EXCEPT !._infosets[infoset_key] =
                    update_in_line([returned |-> strategy, self |-> @],
                                   looped.utilities,
                                   reach_probs[1 - game_state.current_player]) ]
           ELSE looped.manager,
         dot(strategy, looped.utilities))

\* strategy_sum is accumulated at the nodes of player 0 only
entered_TraverserOnly(manager, game_state, infoset_key, got) ==
  [ _infosets |-> [ k \in DOMAIN manager._infosets \cup { infoset_key } |->
                      IF k # infoset_key THEN manager._infosets[k]
                      ELSE IF game_state.current_player = 0 THEN got.self
                      ELSE get_or_create(manager._infosets, k, Len(got.returned)).returned ],
    players |-> [ k \in DOMAIN manager.players \cup { infoset_key } |->
                    IF k = infoset_key
                      THEN { game_state.current_player }
                             \cup (IF k \in DOMAIN manager.players
                                     THEN manager.players[k] ELSE {})
                      ELSE manager.players[k] ] ]

\* the manager after get_or_create and get_strategy at a node
entered(manager, game_state, infoset_key, got) ==
  [ _infosets |-> [ k \in DOMAIN manager._infosets \cup { infoset_key } |->
                      IF k = infoset_key THEN got.self ELSE manager._infosets[k] ],
    players |-> [ k \in DOMAIN manager.players \cup { infoset_key } |->
                    IF k = infoset_key
                      THEN { game_state.current_player }
                             \cup (IF k \in DOMAIN manager.players
                                     THEN manager.players[k] ELSE {})
                      ELSE manager.players[k] ] ]

RECURSIVE _cfr_traverse(_, _, _, _, _)
RECURSIVE subtrees(_, _, _, _, _, _, _, _)

\* one pass of the loop over the actions: the subtree of an outcome of
\* apply_action, its utility appended to those of the actions before
subtree(action_abstraction, outcome, new_reach, traversing_player, looped) ==
  IF outcome.raised THEN { [ looped EXCEPT !.raised = TRUE ] }
  ELSE { IF r.raised
           THEN [raised |-> TRUE, manager |-> r.manager, utilities |-> looped.utilities]
           ELSE [raised |-> FALSE, manager |-> r.manager,
                 utilities |-> Append(looped.utilities, r.utility)] :
           r \in _cfr_traverse(action_abstraction, looped.manager, outcome.new_state,
                               new_reach, traversing_player) }

\* for i, action in enumerate(actions), from the i-th action on; an
\* exception ends the loop
subtrees(action_abstraction, game_state, reach_probs, traversing_player, actions, strategy, i, looped) ==
  IF i > Len(actions) \/ looped.raised THEN { looped }
  ELSE UNION {
         subtrees(action_abstraction, game_state, reach_probs, traversing_player,
                  actions, strategy, i + 1, after) :
           after \in UNION {
             subtree(action_abstraction, x.outcome,
                     [ reach_probs EXCEPT ![game_state.current_player] =
                                            RMul(@, strategy[i]) ],
                     traversing_player, looped) :
               x \in apply_action(game_state, actions[i]) } }

\* a decision node: the information set is looked up, its strategy taken,
\* the actions are tried in turn
node(action_abstraction, manager, game_state, reach_probs, traversing_player, actions, infoset_key, got) ==
  { finish(game_state, reach_probs, traversing_player, infoset_key, got.returned, looped) :
      looped \in subtrees(action_abstraction, game_state, reach_probs, traversing_player,
                          actions, got.returned, 1,
                          [raised |-> FALSE,
                           manager |-> entered(manager, game_state, infoset_key, got),
                           utilities |-> <<>>]) }

\* the node of a key: get_or_create, then get_strategy with the reach of
\* the player to act
keyed(action_abstraction, manager, game_state, reach_probs, traversing_player, actions, infoset_key) ==
  node(action_abstraction, manager, game_state, reach_probs, traversing_player,
       actions, infoset_key,
       get_strategy(get_or_create(manager._infosets, infoset_key, Len(actions)).returned,
                    reach_probs[game_state.current_player]))

\* a state that is not terminal: 0.0 if there is no action to take
decide(action_abstraction, manager, game_state, reach_probs, traversing_player, actions) ==
  IF actions = <<>> THEN { Came(manager, Zero) }
  ELSE keyed(action_abstraction, manager, game_state, reach_probs, traversing_player,
             actions, _build_infoset_key(game_state, game_state.current_player))

\* CFRPlusSolver._cfr_traverse: the results the traversal can have, one per
\* way the run-outs below the node can come
_cfr_traverse(action_abstraction, manager, game_state, reach_probs, traversing_player) ==
  IF game_state.is_terminal
    THEN { Came(manager, Rat(get_payoff(game_state, traversing_player), 2)) }
  ELSE decide(action_abstraction, manager, game_state, reach_probs, traversing_player,
              get_abstract_actions(action_abstraction, game_state))

(***************************************************************************)
(* Reservoir buffer (training/value_network.py)                            *)
(***************************************************************************)
\* ReservoirBuffer.__init__
ReservoirBuffer(max_size) == [max_size |-> max_size, buffer |-> <<>>, count |-> 0]

\* a buffer that takes one sample more than max_size
add_OneMore(self, sample, idx) ==
  IF Len(self.buffer) <= self.max_size
    THEN [ self EXCEPT !.count = @ + 1, !.buffer = Append(@, sample) ]
  ELSE IF idx < self.max_size
    THEN [ self EXCEPT !.count = @ + 1, !.buffer[idx + 1] = sample ]
  ELSE [ self EXCEPT !.count = @ + 1 ]

\* ReservoirBuffer.add; idx is what random.randint(0, self.count - 1)
\* returns, used only when the buffer is full.  Python's list index idx is
\* the position idx + 1 of the sequence.
add(self, sample, idx) ==
  IF Len(self.buffer) < self.max_size
    THEN [ self EXCEPT !.count = @ + 1, !.buffer = Append(@, sample) ]
  ELSE IF idx < self.max_size
    THEN [ self EXCEPT !.count = @ + 1, !.buffer[idx + 1] = sample ]
  ELSE [ self EXCEPT !.count = @ + 1 ]

\* ReservoirBuffer.__len__
len(self) == Len(self.buffer)

\* ReservoirBuffer.clear
clear(self) == [ self EXCEPT !.buffer = <<>>, !.count = 0 ]

(***************************************************************************)
(* The caller: a hand is set up with new_hand and driven by apply_action   *)
(***************************************************************************)
VARIABLES
  gs,      \* the GameState the caller holds
  start,   \* the stacks handed to new_hand
  last,    \* the last apply_action call: its action, the state it was
           \* called on before and after the call, whether it raised, how
           \* many different outcomes the call could have had, and how many
           \* actions had been applied before it in the same betting round
  abstraction,  \* the ActionAbstraction the caller holds
  asked,   \* the last call of map_to_abstract or encode_action on gs: the
           \* action handed in and what the call returned
  infoset, \* an InformationSet of the solver
  visit,   \* the last call made on infoset, what it returned, and the number
           \* of calls that changed infoset
  solver,  \* the counters of a CFRPlusSolver
  manager, \* the information sets of its InformationSetManager
  trained, \* what the train calls on solver did so far: the number of calls,
           \* the iterations they completed, the root utilities of those
           \* iterations added up, and whether the last call raised
  evaluations, \* the last calls of HandEvaluator.evaluate, the latest last:
           \* the cards handed in and what the call returned
  played,  \* the hand played before the present one from the same
           \* new_hand: its actions and its encode_history()
  reservoir  \* a ReservoirBuffer, the samples offered to it since it was
           \* made or cleared, and its buffer before the last call

\* the hand and the abstraction it is played through
hand == << gs, start, last, abstraction, asked, played >>
\* the objects of the solver
cfr == << infoset, visit, solver, trained, manager >>
\* the objects that are called on their own, outside a hand and a solver
bench == << evaluations, reservoir >>

vars == << gs, start, last, abstraction, asked, infoset, visit, solver, trained,
          manager, evaluations, played, reservoir >>

NoQuery == [op |-> "none"]
NoVisit == [op |-> "none", calls |-> 0]
NoTrain == [calls |-> 0, performed |-> 0, utility |-> Zero, raised |-> FALSE]

\* a new information set that is never called
NoInfoSet ==
  /\ infoset = InformationSet(1)
  /\ visit = NoVisit

\* a new solver that is never trained
NoSolver ==
  /\ solver = CFRPlusSolver
  /\ trained = NoTrain
  /\ manager = InformationSetManager

NoTraining == NoInfoSet /\ NoSolver

\* a buffer nothing is offered to
NoReservoir == [self |-> ReservoirBuffer(0), offers |-> <<>>, before |-> <<>>,
                op |-> "none", cleared |-> FALSE]

\* nothing is called on its own
NoBench ==
  /\ evaluations = <<>>
  /\ reservoir = NoReservoir

\* no hand was played before the present one
NoPlayed == [hands |-> 0, _infosets |-> << >>]

NoCall(s) == [called |-> FALSE, action |-> fold, self_before |-> s, self_after |-> s,
              raised |-> FALSE, outcomes |-> 1, acted |-> 0]

\* new_hand's defaults: big_blind = 2 and stacks of 100 big blinds
big_blind == 2
DefaultStacks == [ p \in Players |-> 100 * big_blind ]

\* the stacks a hand starts with: the default ones and every pair of short
\* stacks that covers the big blind
StartingStacks ==
  { DefaultStacks } \cup [ Players -> big_blind..MaxStack ]

Init ==
  \E d \in Deals, stacks \in StartingStacks :
    /\ start = stacks
    /\ gs = new_hand(HoleCards(d), start, big_blind)
    /\ last = NoCall(gs)
    /\ abstraction = DefaultAbstraction
    /\ asked = NoQuery
    /\ played = NoPlayed
    /\ NoTraining
    /\ NoBench

\* state = state.apply_action(action), one of the outcomes the call can have;
\* an exception leaves the caller with the state it had and ends the hand
Recorded(action, results, outcomes) ==
  \E r \in results :
    /\ gs' = IF r.outcome.raised THEN gs ELSE r.outcome.new_state
    /\ last' = [called |-> TRUE, action |-> action, self_before |-> gs,
                self_after |-> r.self_after, raised |-> r.outcome.raised,
                outcomes |-> outcomes,
                acted |-> IF last.called /\ gs.street = last.self_before.street
                            THEN last.acted + 1 ELSE 0]

Applied(action, results) ==
  Recorded(action, results, Cardinality({ x.outcome : x \in results }))

Apply(action) ==
  /\ ~last.raised
  /\ Applied(action, apply_action(gs, action))
  /\ asked' = NoQuery
  /\ UNCHANGED << start, abstraction, cfr, bench, played >>

\* the actions the engine and the abstraction offer in a state
Offered(s) == Range(get_legal_actions(s)) \cup Range(get_abstract_actions(DefaultAbstraction, s))

\* a hand played by the offered actions
Play ==
  /\ Len(gs.action_history) < MaxHist
  /\ \E action \in Offered(gs) : Apply(action)

Next == Play

Spec == Init /\ [][Next]_vars

\* every action a caller can construct with an amount up to MaxAmount
ActionUniverse ==
  { fold, check, call }
    \cup { bet(a) : a \in 0..MaxAmount }
    \cup { raise_to(a) : a \in 0..MaxAmount }
    \cup { all_in(a) : a \in 0..MaxAmount }

\* both players start with the same stack, as in CFRPlusSolver.train
EqualStacks ==
  { DefaultStacks } \cup { [ p \in Players |-> s ] : s \in big_blind..MaxStack }

\* a caller that submits whatever action it likes, offered or not, to
\* whatever state it holds, terminal or not
InitAny ==
  \E stacks \in EqualStacks :
    /\ start = stacks
    /\ gs = new_hand(HoleCards(TopDeal), start, big_blind)
    /\ last = NoCall(gs)
    /\ abstraction = DefaultAbstraction
    /\ asked = NoQuery
    /\ played = NoPlayed
    /\ NoTraining
    /\ NoBench

Submit ==
  /\ Len(gs.action_history) < MaxCalls
  /\ \E action \in ActionUniverse : Apply(action)

NextAny == Submit

SpecAny == InitAny /\ [][NextAny]_vars

\* the stacks of a hand played through the abstraction
AbstractionStacks ==
  { DefaultStacks } \cup [ Players -> big_blind..MaxDeepStack ]

\* the abstractions a caller configures: the default sizes or the same sizes
\* listed from the largest down, with and without the all-in
Abstractions ==
  { DefaultAbstraction,
    ActionAbstraction(NotGiven, NotGiven, FALSE),
    ActionAbstraction(Given(reversed(PREFLOP_RAISE_SIZES)),
                      Given(reversed(POSTFLOP_BET_SIZES)), include_all_in),
    ActionAbstraction(Given(reversed(PREFLOP_RAISE_SIZES)),
                      Given(reversed(POSTFLOP_BET_SIZES)), FALSE) }

InitAbstract ==
  \E stacks \in AbstractionStacks, configured \in Abstractions :
    /\ start = stacks
    /\ gs = new_hand(HoleCards(TopDeal), start, big_blind)
    /\ last = NoCall(gs)
    /\ abstraction = configured
    /\ asked = NoQuery
    /\ played = NoPlayed
    /\ NoTraining
    /\ NoBench

\* the traversal of the abstracted tree: only actions the abstraction
\* returns for the state are applied to it.  map_to_abstract and
\* encode_action change neither the state nor the abstraction, so that what
\* can follow one of their calls can follow without it: every step is taken
\* from a state no call has been made on.
PlayAbstract ==
  /\ asked = NoQuery
  /\ Len(gs.action_history) < MaxAbstractHist
  /\ \E action \in Range(get_abstract_actions(abstraction, gs)) : Apply(action)

\* the actions observed in play that are handed to the abstraction: any
\* action with an amount up to MaxObserved, and the abstract actions
Observed(s) ==
  { fold, check, call }
    \cup { bet(a) : a \in 0..MaxObserved }
    \cup { raise_to(a) : a \in 0..MaxObserved }
    \cup { all_in(a) : a \in 0..MaxObserved }
    \cup Range(get_abstract_actions(abstraction, s))

\* abstraction.map_to_abstract(action, gs) while a player is to act
Map ==
  /\ asked = NoQuery
  /\ ~gs.is_terminal
  /\ \E action \in Observed(gs) :
       asked' = [op |-> "map_to_abstract", action |-> action,
                 result |-> map_to_abstract(abstraction, action, gs)]
  /\ UNCHANGED << gs, start, last, abstraction, cfr, bench, played >>

\* abstraction.encode_action(action, gs) while a player is to act
Encode ==
  /\ asked = NoQuery
  /\ ~gs.is_terminal
  /\ \E action \in Observed(gs) :
       asked' = [op |-> "encode_action", action |-> action,
                 result |-> encode_action(abstraction, action, gs)]
  /\ UNCHANGED << gs, start, last, abstraction, cfr, bench, played >>

NextAbstract == PlayAbstract \/ Map \/ Encode

SpecAbstract == InitAbstract /\ [][NextAbstract]_vars

\* a hand with equal short stacks, as CFRPlusSolver.train starts it, played
\* through any of the abstractions
InitSequence ==
  \E stacks \in { [ p \in Players |-> s ] : s \in big_blind..MaxStartingStack }, configured \in Abstractions :
    /\ start = stacks
    /\ gs = new_hand(HoleCards(TopDeal), start, big_blind)
    /\ last = NoCall(gs)
    /\ abstraction = configured
    /\ asked = NoQuery
    /\ played = NoPlayed
    /\ NoTraining
    /\ NoBench

\* one step down the tree as _cfr_traverse walks it: an action of
\* get_abstract_actions is applied to the state the step before returned;
\* an exception of apply_action ends the sequence
Descend ==
  /\ Len(gs.action_history) < MaxSequence
  /\ \E action \in Range(get_abstract_actions(abstraction, gs)) : Apply(action)

NextSequence == Descend

\* the recursion goes on while there is an action to apply
SpecSequence == InitSequence /\ [][NextSequence]_vars /\ WF_vars(Descend)

\* hands that are played again start with equal stacks, as those of
\* CFRPlusSolver.train do
InitReplay ==
  \E stacks \in { DefaultStacks } \cup { [ p \in Players |-> s ] : s \in big_blind..MaxDeepStack },
     configured \in Abstractions, d \in Deals :
    /\ start = stacks
    /\ gs = new_hand(HoleCards(d), start, big_blind)
    /\ last = NoCall(gs)
    /\ abstraction = configured
    /\ asked = NoQuery
    /\ played = NoPlayed
    /\ NoTraining
    /\ NoBench

\* the traversal leaves the node it reached, where it made the information
\* set of the node if a player is to act; the next hand starts from a new
\* deal with the same stacks
Replay ==
  /\ played.hands = 0
  /\ gs.action_history # <<>>
  /\ played' =
       [hands |-> 1, action_history |-> gs.action_history,
        encoded |-> encode_history(gs),
        _infosets |->
          IF gs.is_terminal THEN << >>
          ELSE get_or_create(<< >>, _build_infoset_key(gs, gs.current_player),
                             Len(get_abstract_actions(abstraction, gs))).self]
  /\ \E d \in Deals : gs' = new_hand(HoleCards(d), start, big_blind)
  /\ last' = NoCall(gs')
  /\ UNCHANGED << start, abstraction, asked, cfr, bench >>

\* a hand of at most MaxReplayHist actions, each one returned by the
\* abstraction for the state it is applied to.  The board of a run-out is
\* no part of a history or of a key: the first hand is played with its
\* run-outs, the next one up to them.
PlayShort ==
  /\ Len(gs.action_history) < MaxReplayHist
  /\ \E action \in Range(get_abstract_actions(abstraction, gs)) :
       /\ played.hands = 0 \/ ~RunsOut(gs, action)
       /\ Apply(action)

NextReplay == PlayShort \/ Replay

\* hands played one after the other through the abstraction, each from the
\* same new_hand
SpecReplay == InitReplay /\ [][NextReplay]_vars

\* the hand the solver deals before it traverses: new_hand with the
\* defaults, nothing applied to it
NoHand ==
  /\ start = DefaultStacks
  /\ gs = new_hand(HoleCards(TopDeal), start, big_blind)
  /\ last = NoCall(gs)
  /\ abstraction = DefaultAbstraction
  /\ asked = NoQuery
  /\ played = NoPlayed

\* the values of a player's own reach probability at a node that is
\* visited: a product of strategy entries
Reaches == { Rat(1, 2), One }

\* the values handed in as counterfactual reach: the reach of the opponent,
\* which can be 0, and a negative number
CounterfactualReaches == { Rat(-1, 1), Zero, Rat(1, 2), One }

\* the action utilities of a node with n actions: each a loss, nothing or a
\* win of one unit
Utilities(n) == [ 1..n -> { Rat(-1, 1), Zero, One } ]

\* InformationSetManager.get_or_create(key, num_actions) at the first visit
InitInfoSet ==
  /\ NoHand
  /\ \E num_actions \in 1..MaxActions : infoset = InformationSet(num_actions)
  /\ visit = NoVisit
  /\ NoSolver
  /\ NoBench

\* strategy = infoset.get_strategy(reach_probability)
Got(got) ==
  /\ infoset' = got.self
  /\ visit' = [op |-> "get_strategy", calls |-> visit.calls + 1,
               returned |-> got.returned]

GetStrategy ==
  /\ visit.calls < MaxVisits
  /\ \E reach_probability \in Reaches : Got(get_strategy(infoset, reach_probability))
  /\ UNCHANGED << hand, solver, trained, manager, bench >>

GetAverageStrategy ==
  /\ visit' = [op |-> "get_average_strategy", calls |-> visit.calls,
               returned |-> get_average_strategy(infoset)]
  /\ UNCHANGED << hand, infoset, solver, trained, manager, bench >>

UpdateRegrets ==
  /\ visit.calls < MaxVisits
  /\ \E action_utilities \in Utilities(infoset.num_actions),
        counterfactual_reach \in CounterfactualReaches :
       infoset' = update_regrets(infoset, action_utilities, counterfactual_reach)
  /\ visit' = [op |-> "update_regrets", calls |-> visit.calls + 1]
  /\ UNCHANGED << hand, solver, trained, manager, bench >>

VisitNode ==
  /\ visit.calls < MaxVisits
  /\ \E reach_probability \in Reaches,
        action_utilities \in Utilities(infoset.num_actions),
        cf_reach \in CounterfactualReaches \ { Rat(-1, 1) } :
       infoset' = visit_node(infoset, reach_probability, action_utilities, cf_reach)
  /\ visit' = [op |-> "visit_node", calls |-> visit.calls + 1]
  /\ UNCHANGED << hand, solver, trained, manager, bench >>

NextInfoSet == GetStrategy \/ GetAverageStrategy \/ UpdateRegrets \/ VisitNode

SpecInfoSet == InitInfoSet /\ [][NextInfoSet]_vars

\* the root utilities of an iteration: a loss, nothing or a win of one or
\* of half a unit
RootUtilities == { Rat(-1, 1), Rat(-1, 2), Zero, Rat(1, 2), One }

\* what the traversals of a call of train(iterations) come back with
Traversals(iterations) ==
  [ 1..iterations -> { Raised } \cup { Traversed(u) : u \in RootUtilities } ]

\* the traversals that are completed iterations: those before the first
\* that raised
Performed(traversals) ==
  SubSeq(traversals, 1,
         SetMin({ i \in 1..Len(traversals) : traversals[i].raised } \cup { Len(traversals) + 1 }) - 1)

InitSolver ==
  /\ NoHand
  /\ NoInfoSet
  /\ NoSolver
  /\ NoBench

\* solver.train(iterations, verbose=False)
Trained(called, performed) ==
  /\ solver' = called.self
  /\ trained' = [calls |-> trained.calls + 1,
                 performed |-> trained.performed + Len(performed),
                 utility |-> RAdd(trained.utility,
                                  sum([ i \in 1..Len(performed) |-> performed[i].utility ])),
                 raised |-> called.raised]

Train ==
  /\ trained.calls < MaxTrains
  /\ \E iterations \in 0..MaxIterations :
       \E traversals \in Traversals(iterations) :
         Trained(train(solver, iterations, traversals), Performed(traversals))
  /\ UNCHANGED << hand, infoset, visit, manager, bench >>

NextSolver == Train

SpecSolver == InitSolver /\ [][NextSolver]_vars

\* solver = CFRPlusSolver(action_abstraction=..., big_blind=2,
\* starting_stack=...): the default stack of 200 or a short one
InitTraverse ==
  \E starting_stack \in { 200 } \cup big_blind..MaxStartingStack,
     configured \in Abstractions :
    /\ start = [ p \in Players |-> starting_stack ]
    /\ gs = new_hand(HoleCards(TopDeal), start, big_blind)
    /\ last = NoCall(gs)
    /\ abstraction = configured
    /\ asked = NoQuery
    /\ played = NoPlayed
    /\ NoTraining
    /\ NoBench

\* the one iteration of solver.train(1, verbose=False) with the hands dealt
\* and what its traversal came back with
Iterated(game_state, traversed) ==
  /\ gs' = game_state
  /\ last' = NoCall(game_state)
  /\ manager' = traversed.manager
  /\ Trained(train(solver, 1,
                   << IF traversed.raised THEN Raised ELSE Traversed(traversed.utility) >>),
             Performed(<< IF traversed.raised THEN Raised ELSE Traversed(traversed.utility) >>))

Dealt(game_state) ==
  \E traversed \in _cfr_traverse(abstraction, manager, game_state,
                                 [ p \in Players |-> One ], 0) :
    Iterated(game_state, traversed)

\* solver.train(1, verbose=False), with any hands the deck can deal and any
\* way the run-outs of the traversal can come
TrainOne ==
  /\ trained.calls < MaxTrains
  /\ \E d \in Deals : Dealt(new_hand(HoleCards(d), start, big_blind))
  /\ UNCHANGED << start, abstraction, asked, played, infoset, visit, bench >>

NextTraverse == TrainOne

SpecTraverse == InitTraverse /\ [][NextTraverse]_vars

\* the cards hands are drawn from when the evaluator is called on its own
EvaluatedCardList ==
  << Card(2, "s"), Card(2, "h"), Card(2, "d"), Card(3, "c"), Card(4, "c"),
     Card(5, "c"), Card(6, "c"), Card(7, "c"), Card(14, "c") >>

\* every list of 5 to 7 distinct cards of the first EvaluatedDeckSize cards,
\* the first two as hole cards and the others as community cards
EvaluatedHands ==
  { Picked(EvaluatedCardList, I) :
      I \in { J \in SUBSET (1..EvaluatedDeckSize) : 5 <= Cardinality(J) /\ Cardinality(J) <= 7 } }

\* no hand, no solver: only the evaluator is called
InitEvaluate ==
  /\ NoHand
  /\ NoTraining
  /\ NoBench

\* result = HandEvaluator.evaluate(cards[:2], cards[2:]); the two latest
\* calls are kept
Evaluate ==
  /\ \E cards \in EvaluatedHands :
       evaluations' =
         (IF evaluations = <<>> THEN <<>> ELSE << evaluations[Len(evaluations)] >>)
           \o << [cards |-> cards,
                  returned |-> evaluate(SubSeq(cards, 1, 2), SubSeq(cards, 3, Len(cards)))] >>
  /\ UNCHANGED << hand, cfr, reservoir >>

NextEvaluate == Evaluate

SpecEvaluate == InitEvaluate /\ [][NextEvaluate]_vars

\* the samples offered to a buffer
Samples == { "x", "y" }

\* buffer = ReservoirBuffer(max_size)
InitReservoir ==
  /\ NoHand
  /\ NoTraining
  /\ evaluations = <<>>
  /\ \E max_size \in 0..MaxSize :
       reservoir = [ NoReservoir EXCEPT !.self = ReservoirBuffer(max_size) ]

\* buffer.add(sample), with any index the random draw can give
Add ==
  /\ Len(reservoir.offers) < MaxOffers
  /\ \E sample \in Samples, idx \in 0..reservoir.self.count :
       reservoir' = [ reservoir EXCEPT
                        !.self = add(@, sample, idx),
                        !.offers = Append(@, sample),
                        !.before = reservoir.self.buffer,
                        !.op = "add" ]
  /\ UNCHANGED << hand, cfr, evaluations >>

\* buffer.clear()
Clear ==
  /\ reservoir' = [ reservoir EXCEPT
                      !.self = clear(@),
                      !.offers = <<>>,
                      !.before = reservoir.self.buffer,
                      !.op = "clear",
                      !.cleared = TRUE ]
  /\ UNCHANGED << hand, cfr, evaluations >>

NextReservoir == Add \/ Clear

SpecReservoir == InitReservoir /\ [][NextReservoir]_vars

(***************************************************************************)
(* Properties                                                              *)
(***************************************************************************)
Types(actions) == { actions[i].type : i \in 1..Len(actions) }

\* C1: chip conservation: whatever actions are applied, the pot and the two
\* stacks always add up to the two stacks the hand was started with.
C1_ChipConservation ==
  gs.pot + gs.stacks[0] + gs.stacks[1] = start[0] + start[1]

C1_Witness ==
  /\ last.called /\ ~last.raised
  /\ last.action.type \in {"call", "bet", "raise", "all_in"}
  /\ gs.pot > last.self_before.pot
  /\ Len(gs.action_history) = 2

\* C2: from new_hand with the default big blind 2 and stacks 200, Call and
\* then Check leave a non-terminal state on the Flop with pot 4, nothing bet
\* in the round, player 1 to act and no bet to face.
C2_CallCheckReachesFlop ==
  (start = DefaultStacks /\ gs.action_history = << call, check >>)
    => /\ ~gs.is_terminal
       /\ gs.street = "FLOP"
       /\ gs.pot = 4
       /\ gs.bets_this_round = [ p \in Players |-> 0 ]
       /\ gs.current_player = 1
       /\ ~gs.facing_bet

\* StreetEnum.community_card_count
community_card_count(street) ==
  CASE street = "PREFLOP" -> 0
    [] street = "FLOP" -> 3
    [] street = "TURN" -> 4
    [] street = "RIVER" -> 5

\* C3: in every non-terminal state the board holds the number of cards of
\* its street: 0 preflop, 3 on the flop, 4 on the turn, 5 on the river.
C3_CommunityCardCount ==
  ~gs.is_terminal => Len(gs.community_cards) = community_card_count(gs.street)

\* the hand goes to showdown: the round closes on the river or with a
\* player all-in
ShowdownDue(s, action) ==
  /\ ClosesRound(s, action)
  /\ \/ s.street = "RIVER"
     \/ RunsOut(s, action)

\* C4: whenever a hand reaches showdown both hands are evaluated against a
\* board of five cards, so the call returns a terminal state with a winner
\* in {0, 1, 2} and never fails in the evaluator.
C4_ShowdownOnFullBoard ==
  (last.called /\ ShowdownDue(last.self_before, last.action))
    => /\ ~last.raised
       /\ gs.is_terminal
       /\ gs.winner \in {0, 1, 2}
       /\ Len(gs.community_cards) = 5

\* C5: in every non-terminal state reached by offered actions the legal
\* actions are not empty, hold exactly one of Check and Fold, and hold a
\* chip-committing action whenever the player to act has chips.
C5_LegalActions ==
  ~gs.is_terminal =>
    LET types == Types(get_legal_actions(gs))
    IN  /\ types # {}
        /\ ("check" \in types) # ("fold" \in types)
        /\ gs.stacks[gs.current_player] > 0
             => types \cap {"call", "bet", "raise", "all_in"} # {}

\* the cases of an action that is not legal in a state
Illegal(s, action) ==
  LET player == s.current_player
      my_stack == s.stacks[player]
      my_bet == s.bets_this_round[player]
      opp_bet == s.bets_this_round[1 - player]
  IN  \/ s.is_terminal
      \/ action.type = "bet" /\ action.amount > my_stack
      \/ action.type = "raise" /\ action.amount - my_bet > my_stack
      \/ action.type = "raise" /\ action.amount < opp_bet + s.big_blind
      \/ action.type = "check" /\ opp_bet - my_bet > 0
      \/ action.type \in {"call", "fold"} /\ opp_bet - my_bet = 0

\* C6: apply_action rejects an action that is not legal in the state it is
\* applied to: the call fails and the caller gets no successor state.
C6_IllegalActionRejected ==
  (last.called /\ Illegal(last.self_before, last.action))
    => last.raised /\ gs = last.self_before

StackChange(p) ==
  (IF gs.winner = p THEN 2 * gs.pot ELSE IF gs.winner = 2 THEN gs.pot ELSE 0)
    - 2 * (start[p] - gs.stacks[p])

\* C8: in every terminal state the payoff of a player is the change of that
\* player's stack since the start of the hand.
C8_PayoffIsStackChange ==
  gs.is_terminal => \A p \in Players : get_payoff(gs, p) = StackChange(p)

\* C9: apply_action leaves the state it is applied to as it was, whatever
\* the state and the action.
C9_InputNotMutated ==
  last.called => last.self_after = last.self_before

C9_Witness ==
  /\ last.called /\ ~last.raised
  /\ last.action.type \in {"call", "bet", "raise", "all_in"}
  /\ gs.stacks # last.self_before.stacks
  /\ gs.bets_this_round # last.self_before.bets_this_round
  /\ last.self_after = last.self_before

\* C10: apply_action is a function of the state and the action: the same
\* action applied to equal states gives equal successors, so that a call has
\* one possible outcome only.
C10_Deterministic ==
  last.called => last.outcomes = 1

\* C11: a state is terminal exactly when its winner is 0, 1 or 2 (the tie),
\* a non-terminal state has winner -1, and a Fold of player p in a
\* non-terminal state returns a terminal state won by 1 - p with the pot and
\* the stacks of the state it was applied to.
C11_TerminalHasWinner ==
  /\ gs.is_terminal <=> gs.winner \in {0, 1, 2}
  /\ ~gs.is_terminal => gs.winner = -1
  /\ (last.called /\ last.action = fold /\ ~last.self_before.is_terminal)
       => /\ ~last.raised
          /\ gs.is_terminal
          /\ gs.winner = 1 - last.self_before.current_player
          /\ gs.pot = last.self_before.pot
          /\ gs.stacks = last.self_before.stacks

C11_Witness ==
  /\ last.called /\ last.action = fold
  /\ ~last.self_before.is_terminal
  /\ last.self_before.street = "FLOP"
  /\ gs.is_terminal /\ gs.winner = 1
  /\ gs.pot > 4

\* the chips the player to act has to add to match the bet of the opponent
ToCall(s) ==
  s.bets_this_round[1 - s.current_player] - s.bets_this_round[s.current_player]

\* C12: a Call of a player facing a bet in a non-terminal state returns a
\* state that is terminal or is on the next street with no bets in the
\* round, no bet to face and player 1 to act; a Bet or a Raise returns a
\* non-terminal state on the same street with the opponent to act, facing a
\* bet.
C12_CallClosesBetPasses ==
  /\ (last.called /\ last.action = call
        /\ ~last.self_before.is_terminal /\ ToCall(last.self_before) > 0)
       => /\ ~last.raised
          /\ \/ gs.is_terminal
             \/ /\ gs.street = next(last.self_before.street)
                /\ gs.bets_this_round = [ p \in Players |-> 0 ]
                /\ ~gs.facing_bet
                /\ gs.current_player = 1
  /\ (last.called /\ last.action.type \in {"bet", "raise"}
        /\ ~last.self_before.is_terminal)
       => /\ ~last.raised
          /\ ~gs.is_terminal
          /\ gs.street = last.self_before.street
          /\ gs.current_player = 1 - last.self_before.current_player
          /\ gs.facing_bet

\* C13: in every state reached from new_hand, with both stacks at least the
\* big blind, by applying only actions that get_abstract_actions returned
\* for the state, the two stacks and the pot are not negative.
C13_NonNegativeChips ==
  /\ gs.stacks[0] >= 0
  /\ gs.stacks[1] >= 0
  /\ gs.pot >= 0

C13_Witness ==
  /\ last.called /\ ~last.raised
  /\ last.action \in Range(get_abstract_actions(abstraction, last.self_before))
  /\ last.action.type = "raise"
  /\ gs.stacks[last.self_before.current_player] = 0
  /\ start[0] # start[1]

\* C14: in every reachable non-terminal state get_abstract_actions holds
\* Fold exactly when the amount to call is positive and Check exactly when
\* facing_bet is false, so that exactly one of the two is offered.
C14_FoldOrCheck ==
  ~gs.is_terminal =>
    /\ (fold \in Range(get_abstract_actions(abstraction, gs))) <=> (ToCall(gs) > 0)
    /\ (check \in Range(get_abstract_actions(abstraction, gs))) <=> ~gs.facing_bet
    /\ (fold \in Range(get_abstract_actions(abstraction, gs)))
         # (check \in Range(get_abstract_actions(abstraction, gs)))

C14_Witness ==
  /\ last.called /\ ~last.raised /\ last.action.type = "bet"
  /\ ~gs.is_terminal /\ gs.street = "FLOP"
  /\ gs.facing_bet /\ ToCall(gs) > 0
  /\ fold \in Range(get_abstract_actions(abstraction, gs))
  /\ check \notin Range(get_abstract_actions(abstraction, gs))
  /\ check \in Range(get_abstract_actions(abstraction, last.self_before))

\* C15: for a player who faces a bet with a positive stack,
\* get_abstract_actions offers Call exactly when the amount to call is less
\* than the stack, and otherwise an AllIn of the whole stack in its place;
\* with include_all_in enabled an AllIn of the whole stack is offered in
\* every non-terminal state where the stack exceeds the amount to call.
C15_CallOrAllIn ==
  ~gs.is_terminal =>
    LET my_stack == gs.stacks[gs.current_player]
        offered == Range(get_abstract_actions(abstraction, gs))
    IN  /\ (ToCall(gs) > 0 /\ my_stack > 0)
             => /\ (call \in offered) <=> (ToCall(gs) < my_stack)
                /\ ToCall(gs) >= my_stack => all_in(my_stack) \in offered
        /\ (abstraction._include_all_in /\ my_stack > ToCall(gs))
             => all_in(my_stack) \in offered

C15_Witness ==
  /\ last.called /\ ~last.raised /\ ~gs.is_terminal
  /\ ToCall(gs) > 0
  /\ ToCall(gs) >= gs.stacks[gs.current_player]
  /\ gs.stacks[gs.current_player] > 0
  /\ all_in(gs.stacks[gs.current_player]) \in Range(get_abstract_actions(abstraction, gs))
  /\ call \notin Range(get_abstract_actions(abstraction, gs))
  /\ ~abstraction._include_all_in

\* C16: for a Bet or a Raise, map_to_abstract returns the abstract Bet, Raise
\* or AllIn of the state whose amount is nearest to the amount handed in,
\* and of two that are equally near the one with the smaller amount,
\* whatever sizes are configured; Fold, Check, Call and AllIn come back
\* unchanged.
C16_MapsToNearest ==
  asked.op = "map_to_abstract" =>
    /\ asked.action.type \in {"fold", "check", "call", "all_in"}
         => asked.result = asked.action
    /\ asked.action.type \in {"bet", "raise"} =>
         LET legal == { a \in Range(get_abstract_actions(abstraction, gs)) : IsAggressive(a) }
             distance(a) == Abs(a.amount - asked.action.amount)
         IN  legal # {} =>
               /\ asked.result \in legal
               /\ \A a \in legal :
                    /\ distance(asked.result) <= distance(a)
                    /\ distance(a) = distance(asked.result)
                         => asked.result.amount <= a.amount

\* C17: for every action and every non-terminal state encode_action returns
\* an index from 0 up to, not including, get_num_actions of the state, and
\* for the action at place i of get_abstract_actions it returns i.
C17_EncodesEveryAction ==
  asked.op = "encode_action" =>
    /\ ~asked.result.raised
    /\ asked.result.value \in 0..(get_num_actions(abstraction, gs) - 1)
    /\ \A i \in 1..get_num_actions(abstraction, gs) :
         get_abstract_actions(abstraction, gs)[i] = asked.action
           => asked.result.value = i - 1

\* C18: after every regret update of an information set, by update_regrets
\* or in line at a node of a traversal, every cumulative regret is at least
\* 0, whatever the action utilities and the counterfactual reach.
C18_RegretsNotNegative ==
  \A i \in 1..infoset.num_actions : RGe(infoset.cumulative_regrets[i], Zero)

C18_Witness ==
  /\ visit.op \in {"update_regrets", "visit_node"}
  /\ visit.calls = 2
  /\ infoset.num_actions = 2
  /\ infoset.cumulative_regrets[1] = Zero
  /\ RGe(infoset.cumulative_regrets[2], One)
  /\ RGt(infoset.strategy_sum[2], infoset.strategy_sum[1])

\* what the strategy a call returned is proportional to
Weights(op) ==
  IF op = "get_strategy" THEN maximum0(infoset.cumulative_regrets)
  ELSE infoset.strategy_sum

\* p, with entries adding up to total, is a distribution over the actions of
\* infoset: the weights w over their sum w_total, or uniform when that is 0
IsDistributionOf(p, total, w, w_total) ==
  /\ Len(p) = infoset.num_actions
  /\ \A i \in 1..infoset.num_actions : RGe(p[i], Zero)
  /\ total = One
  /\ \A i \in 1..infoset.num_actions :
       IF RGt(w_total, Zero) THEN RMul(p[i], w_total) = w[i]
       ELSE p[i] = Rat(1, infoset.num_actions)

\* C19: get_strategy and get_average_strategy return one entry per action,
\* none negative, adding up to 1: the positive regrets (for the average, the
\* strategy sums) divided by their sum when that sum is positive, and 1/K
\* for each of the K actions when it is zero.
C19_StrategyIsDistribution ==
  visit.op \in {"get_strategy", "get_average_strategy"} =>
    IsDistributionOf(visit.returned, sum(visit.returned),
                     Weights(visit.op), sum(Weights(visit.op)))

C19_Witness ==
  /\ visit.op = "get_average_strategy"
  /\ infoset.num_actions = 2
  /\ RGt(visit.returned[1], visit.returned[2])
  /\ RGt(visit.returned[2], Zero)

\* C20: after any sequence of train calls get_game_value is the sum of the
\* root utilities of all the iterations performed so far divided by the
\* number of those iterations, and it is 0 before any training.
C20_GameValueIsAverage ==
  get_game_value(solver) =
    IF trained.performed = 0 THEN Zero
    ELSE RDiv(trained.utility, Rat(trained.performed, 1))

\* C21: for every 5 to 7 distinct cards, evaluate returns an absolute_rank
\* in 1..7462 and HandType.from_rank of that rank is the hand_type of the
\* same result: the rank lies inside the range of its own category.
C21_RankInsideItsCategory ==
  \A i \in 1..Len(evaluations) :
    LET returned == evaluations[i].returned
    IN  /\ returned.ok
        /\ returned.result.absolute_rank \in 1..7462
        /\ from_rank(returned.result.absolute_rank)
             = [raised |-> FALSE, value |-> returned.result.hand_type]

\* the rank tuple that tells two five-card hands of one category apart, as
\* the _calculate_*_rank functions encode it: the values in groups of four,
\* three, two and one of a kind, each group from the highest down; for a
\* straight its high card, 5 for the wheel
Grouped(values, count) ==
  reversed(SetToSortedSeq({ v \in Range(values) : value_count(values, v) = count }))

rank_tuple(cards) ==
  LET values == sorted([ i \in 1..Len(cards) |-> cards[i].rank ])
  IN  IF _check_straight(values)
        THEN << IF values = <<2, 3, 4, 5, 14>> THEN 5 ELSE values[Len(values)] >>
      ELSE Grouped(values, 4) \o Grouped(values, 3) \o Grouped(values, 2)
             \o Grouped(values, 1)

\* tuples of one length in lexicographic order
Weaker(a, b) ==
  \E k \in 1..Len(a) : a[k] < b[k] /\ \A j \in 1..(k - 1) : a[j] = b[j]

\* C22: of two five-card hands of the same category, the one with the
\* stronger rank tuple gets the strictly greater absolute_rank; so a kicker
\* replaced by a higher rank not in the hand strictly increases the rank.
C22_StrictlyMonotone ==
  \A i, j \in 1..Len(evaluations) :
    ( /\ Len(evaluations[i].cards) = 5
      /\ Len(evaluations[j].cards) = 5
      /\ evaluations[i].returned.result.hand_type = evaluations[j].returned.result.hand_type
      /\ Weaker(rank_tuple(evaluations[i].cards), rank_tuple(evaluations[j].cards)) )
    => evaluations[i].returned.result.absolute_rank
         < evaluations[j].returned.result.absolute_rank

\* C24: a Check completes the betting round (the street advances or the
\* hand goes to showdown) exactly when the opponent has already acted in
\* the round with no bet pending, or when the big blind checks preflop after
\* the small blind's limp; every other check passes the action to the
\* opponent on the same street.
C24_CheckClosesAfterOpponentActed ==
  (last.called /\ ~last.raised /\ last.action.type = "check")
    => LET before == last.self_before
           due == \/ (last.acted >= 1 /\ ~before.facing_bet)
                  \/ /\ before.street = "PREFLOP"
                     /\ before.current_player = 1
                     /\ ~before.facing_bet
       IN  IF due
             THEN gs.is_terminal \/ gs.street # before.street
           ELSE /\ ~gs.is_terminal
                /\ gs.street = before.street
                /\ gs.current_player = 1 - before.current_player

\* C25: whenever a betting round closes (by a Call, a round-completing Check
\* or an all-in for no more than the amount to call) while a player's stack
\* is zero, the call returns a terminal state: the board is run out to five
\* pairwise distinct cards that are in neither player's hand and that extend
\* the board there was, and the winner is the one of the showdown.
C25_AllInRunsOutTheBoard ==
  ( /\ last.called
    /\ ~last.self_before.is_terminal
    /\ RunsOut(last.self_before, last.action) )
    => /\ ~last.raised
       /\ gs.is_terminal
       /\ gs.street = last.self_before.street
       /\ Len(gs.community_cards) = 5
       /\ Cardinality(Range(gs.community_cards)) = 5
       /\ \A p \in Players : Range(gs.community_cards) \cap Range(gs.hole_cards[p]) = {}
       /\ SubSeq(gs.community_cards, 1, Len(last.self_before.community_cards))
            = last.self_before.community_cards
       /\ _showdown(gs) = Returned(gs)

C25_Witness ==
  /\ last.called /\ ~last.raised
  /\ last.action.type = "all_in"
  /\ last.self_before.street = "FLOP"
  /\ ClosesRound(last.self_before, last.action)
  /\ gs.stacks[last.self_before.current_player] = 0
  /\ gs.is_terminal
  /\ Len(gs.community_cards) = 5
  /\ last.outcomes > 1
  /\ gs.winner = 0

\* C26: in every reachable non-terminal state the abstract actions have
\* pairwise distinct (type, amount) pairs and pairwise distinct tokens
\* (Action.encode), and two different sequences of actions played from the
\* same initial state never have the same encode_history string.
C26_HistoryTellsActionsApart ==
  /\ LET actions == get_abstract_actions(abstraction, gs)
     IN  \A i, j \in 1..Len(actions) :
           i # j => /\ << actions[i].type, actions[i].amount >>
                        # << actions[j].type, actions[j].amount >>
                    /\ encode(actions[i]) # encode(actions[j])
  /\ (played.hands > 0 /\ played.encoded = encode_history(gs))
       => played.action_history = gs.action_history

C26_Witness ==
  /\ played.hands > 0
  /\ Len(played.action_history) = 2
  /\ Len(gs.action_history) = 2
  /\ played.action_history[1].type = "raise"
  /\ gs.action_history[1].type = "raise"
  /\ played.action_history[1].amount # gs.action_history[1].amount
  /\ played.action_history[2].type = "all_in"
  /\ gs.action_history[2].type = "all_in"
  /\ played.encoded # encode_history(gs)

\* C27: with the big blind and the starting stack fixed, two decision nodes
\* with the same information-set key have the same number of abstract
\* actions: the information set made at the first is never used at the
\* second with vectors of another length.
C27_SameKeySameActions ==
  ~gs.is_terminal =>
    get_or_create(played._infosets, _build_infoset_key(gs, gs.current_player),
                  Len(get_abstract_actions(abstraction, gs))).returned.num_actions
      = Len(get_abstract_actions(abstraction, gs))

\* the key of a node is met again in the next hand
C27_Witness ==
  /\ ~gs.is_terminal
  /\ gs.action_history # <<>>
  /\ _build_infoset_key(gs, gs.current_player) \in DOMAIN played._infosets
  /\ gs.hole_cards[gs.current_player] = << CardList[3], CardList[4] >>
  /\ Len(get_abstract_actions(abstraction, gs)) > 2

\* C28: after any adds to a ReservoirBuffer with capacity M, count is the
\* number of samples offered since it was made or last cleared, the length
\* of the buffer is min(count, M), the first M offers are stored in the
\* order they were made, and a later offer j either leaves the buffer as it
\* was or overwrites exactly one slot u < M, u in [0, j).
C28_ReservoirKeepsCount ==
  LET self == reservoir.self
      M == self.max_size
      j == Len(reservoir.offers)
  IN  /\ self.count = j
      /\ len(self) = Min2(self.count, M)
      /\ j <= M => self.buffer = reservoir.offers
      /\ (reservoir.op = "add" /\ j > M)
           => \/ self.buffer = reservoir.before
              \/ \E u \in 0..(M - 1) :
                   /\ u < j
                   /\ self.buffer = [ reservoir.before EXCEPT ![u + 1] = reservoir.offers[j] ]

C28_Witness ==
  /\ reservoir.cleared
  /\ reservoir.op = "add"
  /\ reservoir.self.max_size = 2
  /\ reservoir.self.count = 4
  /\ reservoir.offers = << "x", "x", "y", "y" >>
  /\ reservoir.self.buffer = << "y", "y" >>

C30_SequenceReachesTerminal == <>(gs.is_terminal)

====
